---- MODULE Spec2Model ----
(***************************************************************************)
(* A model of mita's reconciliation tasks (src/mita/async.py), the         *)
(* OpenStack provider they drive (src/mita/providers/openstack.py) and the *)
(* queue-reason helpers they call (src/mita/util.py).                      *)
(*                                                                         *)
(* Python strings are sequences of one-character strings, so that split,   *)
(* startswith, endswith and "in" are computed as Python computes them.     *)
(* An optional value (None or a value) is a sequence of length 0 or 1.     *)
(***************************************************************************)
EXTENDS Integers, Sequences, FiniteSets, TLC

VARIABLES
    now,            \* datetime.utcnow(), in whole seconds
    registry,       \* models.Node rows: uuid index -> row
    jenkinsNodes,   \* the CI system's nodes: sequence of [name, idle]
    cloud,          \* the providers' nodes: sequence of [name, state, provider]
    volumes,        \* names of the storage volumes that exist at the providers
    envFaults,      \* whether external calls may fail in this run
    rpc,            \* check_orphaned: position of each pass
    rnodes,         \* check_orphaned: the rows returned by Node.query.all()
    ridx,           \* check_orphaned: index of the row being processed
    rtarget,        \* destroy_node: the listed provider node that matched
    rpidx,          \* check_orphaned: index of the provider being purged
    destroyed,      \* history: cloud names the providers destroyed for a pass
    rev,            \* check_orphaned: what the current iteration observed and did
    ipc,            \* check_idling: position of the pass
    imita,          \* check_idling: mita_nodes, the names the pass will process
    iidx,           \* check_idling: index of the name being processed
    polls,          \* history: how many check_idling passes have started
    reports,        \* history: the posts check_idling issued, oldest first
    qpc,            \* check_queue: position of the pass
    queue,          \* the CI system's build queue: sequence of [why, url]
    needed_nodes,   \* check_queue: node type -> how many the pass still has to ask for
    catalog,        \* pecan.conf.nodes
    qpasses,        \* history: how many check_queue passes have started
    qlog,           \* history: the branch the current pass logged
    requests,       \* history: the creation requests posted, oldest first
    ecatalog,       \* util.py called directly: the configured nodes
    einput,         \* util.py called directly: the string passed
    efallback,      \* util.py called directly: get_key's fallback argument
    eout,           \* util.py called directly: the function called and its result
    plast,          \* openstack.py called directly: the last call and what it did
    wait            \* _wait_until_volume_available: [pc, maybe_in_use, state, tries]

reaperVars == <<rpc, rnodes, ridx, rtarget, rpidx, rev>>
worldVars == <<now, registry, jenkinsNodes, cloud, volumes, envFaults, destroyed>>
idleVars == <<ipc, imita, iidx, polls, reports>>
queueVars == <<qpc, queue, needed_nodes, catalog, qpasses, qlog, requests>>
engineVars == <<ecatalog, einput, efallback, eout>>
providerVars == <<plast, wait>>
vars == <<now, registry, jenkinsNodes, cloud, volumes, envFaults, destroyed,
          rpc, rnodes, ridx, rtarget, rpidx, rev,
          ipc, imita, iidx, polls, reports,
          qpc, queue, needed_nodes, catalog, qpasses, qlog, requests,
          ecatalog, einput, efallback, eout, plast, wait>>

\* what each task leaves alone
notReaper == <<idleVars, queueVars, engineVars, providerVars>>
notIdle == <<reaperVars, queueVars, engineVars, providerVars,
             now, registry, cloud, volumes, destroyed>>
notQueue == <<reaperVars, idleVars, engineVars, providerVars,
              now, registry, jenkinsNodes, cloud, volumes, destroyed>>
notEngine == <<reaperVars, idleVars, queueVars, providerVars, worldVars>>
notProvider == <<reaperVars, idleVars, queueVars, engineVars,
                 now, registry, jenkinsNodes, destroyed>>

-----------------------------------------------------------------------------
(* Bounds of the model *)

MaxNodes == 2

NodeIds == 1..MaxNodes

\* The instants the clock visits (seconds); rows are created at 0, 1, ...
TimePoints == {900, 901, 86411, 88000}

ReaperIds == {1, 2}

\* how many check_idling passes a run starts
MaxPolls == 2

\* how many tasks a queue snapshot holds at most
MaxTasks == 2

\* how many check_queue passes a run makes at most
MaxQueuePasses == 2

-----------------------------------------------------------------------------
(* Python string helpers *)

Digits == <<"0", "1", "2", "3", "4", "5", "6", "7", "8", "9">>

Digit(i) == Digits[i + 1]

RECURSIVE StartsWith(_, _)
\* str.startswith(prefix)
StartsWith(s, prefix) ==
    IF prefix = <<>> THEN TRUE
    ELSE IF s = <<>> THEN FALSE
    ELSE Head(s) = Head(prefix) /\ StartsWith(Tail(s), Tail(prefix))

RECURSIVE SplitAcc(_, _, _)
\* str.split(sep) with an explicit separator: cur is the part being read
SplitAcc(s, sep, cur) ==
    IF s = <<>> THEN <<cur>>
    ELSE IF StartsWith(s, sep)
         THEN <<cur>> \o SplitAcc(SubSeq(s, Len(sep) + 1, Len(s)), sep, <<>>)
         ELSE SplitAcc(Tail(s), sep, Append(cur, Head(s)))

SplitOn(s, sep) == SplitAcc(s, sep, <<>>)

RECURSIVE Contains(_, _)
\* sub in s
Contains(s, sub) ==
    IF StartsWith(s, sub) THEN TRUE
    ELSE IF s = <<>> THEN FALSE
    ELSE Contains(Tail(s), sub)

\* str.endswith(suffix)
EndsWith(s, suffix) ==
    /\ Len(suffix) <= Len(s)
    /\ SubSeq(s, Len(s) - Len(suffix) + 1, Len(s)) = suffix

Last(seq) == seq[Len(seq)]

DoubleUnderscore == <<"_", "_">>

-----------------------------------------------------------------------------
(* The world the tasks act on *)

ConfiguredProviders == <<"openstack", "openstack2">>

Uuid(i) == <<"u", Digit(i)>>

\* jenkins names and cloud names carry the uuid as their last '__' part
JenkinsName(i) == <<"h">> \o DoubleUnderscore \o Uuid(i)

CloudName(i) == <<"c">> \o DoubleUnderscore \o Uuid(i)

ProviderOf(i) == ConfiguredProviders[((i - 1) % Len(ConfiguredProviders)) + 1]

\* a models.Node row; jenkins_name <<>> is None (the node never joined)
NodeRow(i, joined) ==
    [id |-> i,
     uuid |-> Uuid(i),
     jenkins_name |-> IF joined THEN JenkinsName(i) ELSE <<>>,
     cloud_name |-> CloudName(i),
     provider |-> ProviderOf(i),
     created |-> i - 1]

RECURSIVE SeqOfSet(_)
\* the elements of a set of integers in increasing order
SeqOfSet(S) ==
    IF S = {} THEN <<>>
    ELSE LET m == CHOOSE x \in S : \A y \in S : x <= y
         IN <<m>> \o SeqOfSet(S \ {m})

Range(seq) == {seq[k] : k \in 1..Len(seq)}

\* jenkins.Jenkins.node_exists(name)
node_exists(name) == \E k \in 1..Len(jenkinsNodes) : jenkinsNodes[k].name = name

-----------------------------------------------------------------------------
(* providers/openstack.py: destroy_node and purge *)

\* driver.list_nodes() of one provider
list_nodes(provider) == SelectSeq(cloud, LAMBDA nd : nd.provider = provider)

NoTarget == [name |-> <<>>, state |-> "none", repr |-> "none", provider |-> "none"]

\* a node matches when its name starts with the name asked for
FindNodeByPrefix(nodes, name) ==
    LET hits == SelectSeq(nodes, LAMBDA nd : StartsWith(nd.name, name))
    IN IF hits = <<>> THEN NoTarget ELSE Head(hits)

\* for node in nodes: if node.name == name  (the first listed node that matches)
FindNode(nodes, name) ==
    LET hits == SelectSeq(nodes, LAMBDA nd : nd.name = name)
    IN IF hits = <<>> THEN NoTarget ELSE Head(hits)

\* what driver.destroy_node(node) and the destroy_volume(name) after it can do
DestroyOutcomes(target) ==
    IF target \in Range(cloud)
    THEN {"destroyed"} \cup
         (IF envFaults THEN {"api_false", "api_raise", "volume_raise"} ELSE {})
    ELSE {"api_false", "api_raise"}

\* a falsy answer of the API passes for a destroyed node
DestroyResultAlwaysOk(outcome) == "ok"

\* what destroy_node(name=...) reports to its caller after driver.destroy_node
DestroyResult(outcome) == IF outcome = "destroyed" THEN "ok" ELSE "error"

\* the provider's nodes once target is destroyed
CloudWithout(target) == SelectSeq(cloud, LAMBDA nd : nd # target)

\* destroy_volume(name): the volume of that name is destroyed when it exists
VolumesAfterDestroy(name) == volumes \ {name}

\* error_integer = node.state == 7
error_integer(nd) == nd.state = "7"

\* str(node) never shows the state
error_repr_Never(nd) == FALSE

\* error_repr = 'state=ERROR' in str(node); repr is the state str(node) shows
error_repr(nd) == nd.repr = "ERROR"

\* error_string = node.state == 'error'
error_string(nd) == nd.state = "error"

\* if error_integer or error_repr or error_string
InErrorState(nd) == error_integer(nd) \/ error_repr(nd) \/ error_string(nd)

\* the provider's nodes once purge() has destroyed those in error state
CloudAfterPurge(provider) ==
    SelectSeq(cloud, LAMBDA nd : ~(nd.provider = provider /\ InErrorState(nd)))

-----------------------------------------------------------------------------
(* util.py: the strings it looks for *)

\* u'‘' and u'’', the curly quotes of the CI system's messages
LQuote == "u2018"

RQuote == "u2019"

\* 'Waiting for'
WaitingFor ==
    <<"W", "a", "i", "t", "i", "n", "g", " ", "f", "o", "r">>

\* 'All nodes of label'
AllNodesOfLabel ==
    <<"A", "l", "l", " ", "n", "o", "d", "e", "s", " ", "o", "f", " ", "l",
      "a", "b", "e", "l">>

\* 'is offline'
IsOffline ==
    <<"i", "s", " ", "o", "f", "f", "l", "i", "n", "e">>

\* 'There are no nodes'
ThereAreNoNodes ==
    <<"T", "h", "e", "r", "e", " ", "a", "r", "e", " ", "n", "o", " ", "n",
      "o", "d", "e", "s">>

\* u"doesn’t have label"
DoesntHaveLabel ==
    <<"d", "o", "e", "s", "n", RQuote, "t", " ", "h", "a", "v", "e", " ",
      "l", "a", "b", "e", "l">>

\* "&&"
AndAnd == <<"&", "&">>

-----------------------------------------------------------------------------
(* util.py: helpers *)

None == <<>>

\* what stands for an exception that leaves the function
Raised == <<"<raised>">>

RECURSIVE SplitWsAcc(_, _)
\* str.split() without a separator: runs of whitespace separate, no empty part
SplitWsAcc(s, cur) ==
    IF s = <<>> THEN (IF cur = <<>> THEN <<>> ELSE <<cur>>)
    ELSE IF Head(s) = " "
         THEN (IF cur = <<>> THEN <<>> ELSE <<cur>>) \o SplitWsAcc(Tail(s), <<>>)
         ELSE SplitWsAcc(Tail(s), Append(cur, Head(s)))

Split(s) == SplitWsAcc(s, <<>>)

RECURSIVE LStrip(_, _)
LStrip(s, chars) ==
    IF s # <<>> /\ Head(s) \in chars THEN LStrip(Tail(s), chars) ELSE s

RECURSIVE RStrip(_, _)
RStrip(s, chars) ==
    IF s # <<>> /\ Last(s) \in chars THEN RStrip(SubSeq(s, 1, Len(s) - 1), chars)
    ELSE s

\* str.strip(chars)
Strip(s, chars) == RStrip(LStrip(s, chars), chars)

\* the curly quotes stay
sanitize_string_KeepsQuotes(string, strip) ==
    IF strip THEN Strip(string, {" "}) ELSE string

\* sanitize_string(string, strip)
sanitize_string(string, strip) ==
    LET kept == SelectSeq(string, LAMBDA ch : ch \notin {LQuote, RQuote})
    IN IF strip THEN Strip(kept, {" "}) ELSE kept

\* job_from_url(url)
job_from_url(url) == Last(SplitOn(Strip(url, {"/"}), <<"/">>))

\* the keys of the configured nodes, in the order the dict yields them
Keys(nodes) == [k \in 1..Len(nodes) |-> nodes[k].key]

\* the first element of a sequence of keys, or None
FirstOrNone(keys) == IF keys = <<>> THEN None ELSE Head(keys)

\* "if key in _dict: return key" is lost
get_key_NeverVerbatim(nodes, key, fallback) ==
    IF key = None THEN None
    ELSE IF fallback
         THEN FirstOrNone(SelectSeq(Keys(nodes),
                             LAMBDA name : name # key /\ Contains(key, name)))
         ELSE None

\* the loop of the fallback keeps the last key it finds, not the first
get_key_LastMatch(nodes, key, fallback) ==
    LET found == SelectSeq(Keys(nodes), LAMBDA name : Contains(key, name))
    IN IF key = None THEN None
       ELSE IF key \in Range(Keys(nodes)) THEN key
       ELSE IF fallback /\ found # <<>> THEN Last(found)
       ELSE None

\* get_key(_dict, key, fallback)
get_key(nodes, key, fallback) ==
    IF key = None THEN None
    ELSE IF key \in Range(Keys(nodes)) THEN key
    ELSE IF fallback
         THEN FirstOrNone(SelectSeq(Keys(nodes), LAMBDA name : Contains(key, name)))
         ELSE None

\* is_stuck(string): the five summaries, tried in order
is_stuck(string) ==
    \/ StartsWith(string, WaitingFor)
    \/ StartsWith(string, AllNodesOfLabel)
    \/ EndsWith(string, IsOffline)
    \/ StartsWith(string, ThereAreNoNodes)
    \/ Contains(string, DoesntHaveLabel)

\* the label is given back in place of the node that carries it
match_node_from_label_GivesLabel(label, nodes) ==
    IF SelectSeq(nodes, LAMBDA nd : label \in Range(nd.labels)) = <<>> THEN None
    ELSE label

\* match_node_from_label(label, configured_nodes)
match_node_from_label(label, nodes) ==
    FirstOrNone(Keys(SelectSeq(nodes, LAMBDA nd : label \in Range(nd.labels))))

\* match_node_from_labels(labels, configured_nodes)
match_node_from_labels(labels, nodes) ==
    IF labels = <<>> THEN None
    ELSE FirstOrNone(Keys(SelectSeq(nodes,
            LAMBDA nd : \A k \in 1..Len(labels) : labels[k] \in Range(nd.labels))))

\* mita.label_eval.matching_nodes(expr, configured_nodes): the configured
\* nodes whose labels hold every label of the &&-joined expression
matching_nodes(expr, nodes) ==
    LET wanted == SplitOn(expr, AndAnd)
    IN Keys(SelectSeq(nodes,
            LAMBDA nd : \A k \in 1..Len(wanted) :
                            Strip(wanted[k], {" "}) \in Range(nd.labels)))

\* match_node_from_label_expr(expr, configured_nodes)
match_node_from_label_expr(expr, nodes) ==
    IF expr = None THEN None ELSE FirstOrNone(matching_nodes(expr, nodes))

Static1 ==
    <<"s", "t", "a", "t", "i", "c", "1">>

Static2 ==
    <<"s", "t", "a", "t", "i", "c", "2">>

Bare ==
    <<"b", "a", "r", "e">>

\* the <label> text of the CI system's static nodes; <<>> is an element
\* without text
StaticNodes ==
    << [name |-> Static1, label |-> <<<<"a", "r", "m", "6", "4", " ", "t", "i", "n", "y">>>>],
       [name |-> Static2, label |-> <<<<"a", "m", "d", "6", "4">>>>],
       [name |-> Bare, label |-> <<>>] >>

\* get_node_labels(node_name): [] for a node the CI system does not have;
\* node.text.split() raises AttributeError for a <label> without text
get_node_labels(node_name) ==
    LET ascii == SelectSeq(node_name, LAMBDA ch : ch \notin {LQuote, RQuote})
        found == SelectSeq(StaticNodes, LAMBDA nd : nd.name = ascii)
    IN IF found = <<>> THEN <<>>
       ELSE IF Head(found).label = <<>> THEN Raised
       ELSE Split(Head(found).label[1])

\* from_label(string); an exception of get_node_labels leaves it
from_label(string, nodes) ==
    IF Split(string) = <<>> THEN None
    ELSE LET node_or_label == sanitize_string(Last(Split(string)), FALSE)
             node_from_label == match_node_from_label(node_or_label, nodes)
             direct == get_key(nodes, node_or_label, TRUE)
             match1 == IF direct # None THEN direct
                       ELSE get_key(nodes, node_from_label, TRUE)
             clean_node == Head(SplitOn(node_or_label, DoubleUnderscore))
             match2 == IF match1 = None THEN get_key(nodes, clean_node, TRUE)
                       ELSE match1
             matched_node == match_node_from_label_expr(node_or_label, nodes)
         IN IF match2 = None /\ matched_node # None THEN matched_node
            ELSE IF match2 = None
                 THEN IF get_node_labels(node_or_label) = Raised THEN Raised
                      ELSE match_node_from_labels(get_node_labels(node_or_label), nodes)
                 ELSE match2

\* from_offline_node_label(string)
from_offline_node_label(string, nodes) ==
    LET label == Last(Split(sanitize_string(string, FALSE)))
        matched_node == match_node_from_label(label, nodes)
    IN IF matched_node = None THEN match_node_from_label_expr(label, nodes)
       ELSE matched_node

\* from_offline_label(string)
from_offline_label(string, nodes) ==
    LET words == Split(sanitize_string(string, FALSE))
        label == words[Len(words) - 2]
        single_label_match == match_node_from_label(label, nodes)
    IN IF single_label_match = None THEN from_offline_node_label(label, nodes)
       ELSE single_label_match

\* from_offline_node(string)
from_offline_node(string, nodes) ==
    LET node == Head(Split(string))
        match == get_key(nodes, node, TRUE)
        clean == Head(SplitOn(node, DoubleUnderscore))
    IN IF match # None THEN match
       ELSE IF clean \in Range(Keys(nodes)) THEN clean ELSE None

\* from_node_without_label(string)
from_node_without_label(string, nodes) ==
    LET messages == SplitOn(string, <<";">>)
        found == SelectSeq(messages,
                    LAMBDA message :
                        /\ Contains(message, DoesntHaveLabel)
                        /\ from_label(message, nodes) # None)
    IN IF found = <<>> THEN None ELSE from_label(Head(found), nodes)

\* every processor whose summary matches is tried until one gives a node
match_node_FirstSuccess(string, nodes) ==
    LET tried ==
          (IF StartsWith(string, WaitingFor)
           THEN <<from_label(string, nodes)>> ELSE <<>>)
          \o (IF StartsWith(string, AllNodesOfLabel)
              THEN <<from_offline_label(string, nodes)>> ELSE <<>>)
          \o (IF EndsWith(string, IsOffline)
              THEN <<from_offline_node(string, nodes)>> ELSE <<>>)
          \o (IF StartsWith(string, ThereAreNoNodes)
              THEN <<from_offline_node_label(string, nodes)>> ELSE <<>>)
          \o (IF Contains(string, DoesntHaveLabel)
              THEN <<from_node_without_label(string, nodes)>> ELSE <<>>)
    IN FirstOrNone(SelectSeq(tried, LAMBDA node : node # None))

\* match_node(string): the processor of the first summary that matches
match_node(string, nodes) ==
    IF StartsWith(string, WaitingFor) THEN from_label(string, nodes)
    ELSE IF StartsWith(string, AllNodesOfLabel) THEN from_offline_label(string, nodes)
    ELSE IF EndsWith(string, IsOffline) THEN from_offline_node(string, nodes)
    ELSE IF StartsWith(string, ThereAreNoNodes)
         THEN from_offline_node_label(string, nodes)
    ELSE IF Contains(string, DoesntHaveLabel)
         THEN from_node_without_label(string, nodes)
    ELSE None

RECURSIVE Dedup(_)
\* list(set(labels)): every label once
Dedup(labels) ==
    IF labels = <<>> THEN <<>>
    ELSE LET rest == Dedup(SubSeq(labels, 1, Len(labels) - 1))
         IN IF Last(labels) \in Range(rest) THEN rest ELSE Append(rest, Last(labels))

\* match_node_from_matrix_job_name(job_name): label.split("=")[1] raises
\* IndexError for a part without "="
match_node_from_matrix_job_name(job_name, nodes) ==
    LET parts == SplitOn(job_name, <<",">>)
        pairs == [k \in 1..Len(parts) |-> SplitOn(parts[k], <<"=">>)]
    IN IF \E k \in 1..Len(pairs) : Len(pairs[k]) < 2 THEN Raised
       ELSE match_node_from_labels(
                Dedup([k \in 1..Len(pairs) |-> pairs[k][2]]), nodes)

-----------------------------------------------------------------------------
(* The configured nodes and the CI system's jobs and static nodes *)

Centos6 ==
    <<"c", "e", "n", "t", "o", "s", "6">>

X86_64 ==
    <<"x", "8", "6", "_", "6", "4">>

Wheezy ==
    <<"w", "h", "e", "e", "z", "y">>

Amd64 ==
    <<"a", "m", "d", "6", "4">>

\* pecan.conf.nodes, in the order the dict yields its keys; name and count are
\* the keys check_queue sets (None and 0 while absent)
ConfiguredNodes ==
    << [key |-> Centos6, labels |-> <<Centos6, X86_64>>, name |-> None, count |-> 0],
       [key |-> Wheezy, labels |-> <<Wheezy, Amd64>>, name |-> None, count |-> 0] >>

JobApp ==
    <<"a", "p", "p">>

JobLib ==
    <<"l", "i", "b">>

JobMatrix ==
    <<"A", "R", "C", "H", "=", "x", "8", "6", "_", "6", "4", ",", "D", "I",
      "S", "T", "=", "c", "e", "n", "t", "o", "s", "6">>

JobFolder ==
    <<"f", "o", "l", "d", "e", "r", "j", "o", "b">>

\* the jobs conn.get_job_info finds, with the text of <assignedNode> in
\* their config.xml (<<>>: no such element)
Jobs ==
    << [name |-> JobApp, assignedNode |-> <<<<"w", "h", "e", "e", "z", "y", "&", "&", "a", "m", "d", "6", "4">>>>],
       [name |-> JobLib, assignedNode |-> <<>>] >>

\* conn.get_job_info(job_name) does not raise JenkinsException
JobInfoFound(job_name) == \E k \in 1..Len(Jobs) : Jobs[k].name = job_name

\* match_node_from_job_config(job_url)
match_node_from_job_config(job_url, nodes) ==
    LET found == SelectSeq(Jobs, LAMBDA j : j.name = job_from_url(job_url))
    IN IF found = <<>> THEN None
       ELSE IF Head(found).assignedNode = <<>> THEN None
       ELSE match_node_from_label_expr(Head(found).assignedNode[1], nodes)

UrlBase ==
    <<"h", "t", "t", "p", ":", "/", "/", "c", "i", "/", "j", "o", "b", "/">>

JobUrl(job_name) == UrlBase \o job_name \o <<"/">>

\* 'Waiting for next available executor on '
WaitingOn ==
    <<"W", "a", "i", "t", "i", "n", "g", " ", "f", "o", "r", " ", "n", "e",
      "x", "t", " ", "a", "v", "a", "i", "l", "a", "b", "l", "e", " ", "e",
      "x", "e", "c", "u", "t", "o", "r", " ", "o", "n", " ">>

\* the blocked tasks a queue snapshot is drawn from: [why, url], why <<>>
\* being None
QueueTasks ==
    << [why |-> <<WaitingOn \o Centos6>>, url |-> JobUrl(JobApp)],
       [why |-> <<>>, url |-> JobUrl(JobApp)],
       [why |-> <<<<"I", "n", " ", "t", "h", "e", " ", "q", "u", "i", "e", "t", " ", "p", "e", "r", "i", "o", "d">>>>, url |-> JobUrl(JobApp)],
       [why |-> <<<<"w", "h", "e", "e", "z", "y", "_", "_", "1", "0", ".", "0", ".", "0", ".", "1", " ", "i", "s", " ", "o", "f", "f", "l", "i", "n", "e">>>>, url |-> JobUrl(JobLib)],
       [why |-> <<WaitingOn \o Static1>>, url |-> JobUrl(JobApp)],
       [why |-> <<WaitingOn \o Static1>>, url |-> JobUrl(JobMatrix)],
       [why |-> <<WaitingOn \o Static1>>, url |-> JobUrl(JobFolder)],
       [why |-> <<WaitingOn \o Static1>>, url |-> JobUrl(JobLib)],
       [why |-> <<WaitingOn \o Bare>>, url |-> JobUrl(JobApp)],
       [why |-> <<<<"T", "h", "e", "r", "e", " ", "a", "r", "e", " ", "n", "o", " ", "n", "o", "d", "e", "s", " ", "w", "i", "t", "h", " ", "t", "h", "e", " ", "l", "a", "b", "e", "l", " ", LQuote, "a", "m", "d", "6", "4", RQuote>>>>,
        url |-> JobUrl(JobLib)] >>

-----------------------------------------------------------------------------
(* The tasks at rest: what a specification of one task gives the others *)

NoEvent ==
    [n |-> 0, step |-> "none", confirmed |-> FALSE, age |-> 0,
     requested |-> FALSE, result |-> "none", deleted |-> FALSE]

IdleAtRest ==
    /\ ipc = "idle"
    /\ imita = <<>>
    /\ iidx = 1
    /\ polls = 0
    /\ reports = <<>>

\* needed_nodes = {}
NothingNeeded == [node_name \in {} |-> 0]

QueueAtRest ==
    /\ qpc = "idle"
    /\ queue = <<>>
    /\ needed_nodes = NothingNeeded
    /\ catalog = ConfiguredNodes
    /\ qpasses = 0
    /\ qlog = "none"
    /\ requests = <<>>

\* nothing of util.py has been called
NotCalled == [fn |-> "none", value |-> None, truth |-> FALSE]

EngineAtRest ==
    /\ ecatalog = ConfiguredNodes
    /\ einput = <<>>
    /\ efallback = TRUE
    /\ eout = NotCalled

\* nothing of the provider has been called
NoCall ==
    [call |-> "none", name |-> <<>>, listing |-> "none", listed |-> <<>>,
     invoked |-> {}, api |-> "none", volumes |-> {}, returned |-> "none"]

\* _wait_until_volume_available has not been called
NotWaiting == [pc |-> "none", maybe_in_use |-> FALSE, state |-> "none", tries |-> 0]

ProviderAtRest == plast = NoCall /\ wait = NotWaiting

\* what a specification of one task gives the direct calls
DirectCallsAtRest == EngineAtRest /\ ProviderAtRest

ReaperAtRest ==
    /\ rpc = [p \in ReaperIds |-> "idle"]
    /\ rnodes = [p \in ReaperIds |-> <<>>]
    /\ ridx = [p \in ReaperIds |-> 1]
    /\ rtarget = [p \in ReaperIds |-> NoTarget]
    /\ rpidx = [p \in ReaperIds |-> 1]
    /\ rev = [p \in ReaperIds |-> NoEvent]
    /\ destroyed = {}

-----------------------------------------------------------------------------
(* async.py: check_orphaned *)

GracePeriod == 900

SecondsPerDay == 86400

\* timedelta.seconds: the seconds field of a normalised timedelta (0..86399),
\* the days being kept in a field of their own
TimedeltaSeconds(difference) == difference % SecondsPerDay

\* if difference.seconds > 900
PastGrace(difference) == TimedeltaSeconds(difference) > GracePeriod

\* the "continue" of the healthy row is lost
SkipHealthyNever(jenkins_name, exists) == FALSE

\* if node.jenkins_name: if conn.node_exists(node.jenkins_name): continue
SkipHealthy(jenkins_name, exists) == jenkins_name # <<>> /\ exists

\* the row is deleted after a successful destroy as well
DeletesRecordEagerly(result) == result \in {"not_found", "ok"}

\* the row is never deleted
DeletesRecordNever(result) == FALSE

\* except CloudNodeNotFound: node.delete(); models.commit()
DeletesRecord(result) == result = "not_found"

\* the row the pass is processing
\* only "except CloudNodeNotFound" is there
HandlesOnlyNotFound(result) == result = "not_found"

\* try: provider.destroy_node(...) except CloudNodeNotFound: ... except
\* Exception: ... continue -- what destroy_node raises stays in the loop
HandlesDestroyError(result) == result \in {"not_found", "error"}

CurrentRow(p) == rnodes[p][ridx[p]]

CurrentId(p) == CurrentRow(p).id

\* the for loop moves on to the next row, or to the purge after the last one
LoopNext(p) ==
    IF ridx[p] < Len(rnodes[p])
    THEN /\ rpc' = [rpc EXCEPT ![p] = "loop"]
         /\ ridx' = [ridx EXCEPT ![p] = ridx[p] + 1]
         /\ rpidx' = rpidx
    ELSE /\ rpc' = [rpc EXCEPT ![p] = "purge"]
         /\ ridx' = ridx
         /\ rpidx' = [rpidx EXCEPT ![p] = 1]

\* nodes = models.Node.query.all()
R_Start(p) ==
    /\ rpc[p] \in {"idle", "done", "raised"}
    /\ \E answer \in {"ok"} \cup (IF envFaults THEN {"invalid_request"} ELSE {}) :
        IF answer = "ok"
        THEN LET ids == SeqOfSet(DOMAIN registry)
                 rows == [k \in 1..Len(ids) |-> registry[ids[k]]]
             IN /\ rnodes' = [rnodes EXCEPT ![p] = rows]
                /\ ridx' = [ridx EXCEPT ![p] = 1]
                /\ rpc' = [rpc EXCEPT ![p] = IF rows = <<>> THEN "purge" ELSE "loop"]
                /\ rpidx' = [rpidx EXCEPT ![p] = 1]
        ELSE \* except InvalidRequestError: rollback and return
             /\ rpc' = [rpc EXCEPT ![p] = "done"]
             /\ rnodes' = [rnodes EXCEPT ![p] = <<>>]
             /\ UNCHANGED <<ridx, rpidx>>
    /\ rev' = [rev EXCEPT ![p] = NoEvent]
    /\ rtarget' = [rtarget EXCEPT ![p] = NoTarget]
    /\ UNCHANGED worldVars
    /\ UNCHANGED notReaper

\* one row: the node_exists test and the age test
R_Check(p) ==
    /\ rpc[p] = "loop"
    /\ LET n == CurrentId(p)
           row == CurrentRow(p)
       IN \E answer \in {"answered"} \cup
                 (IF envFaults /\ row.jenkins_name # <<>> THEN {"raise"} ELSE {}) :
           IF answer = "raise"
           THEN \* conn.node_exists raises: nothing in check_orphaned catches it
                /\ rpc' = [rpc EXCEPT ![p] = "raised"]
                /\ UNCHANGED <<ridx, rpidx, rev>>
           ELSE LET exists == node_exists(row.jenkins_name)
                    difference == now - row.created
                    ev == [n |-> n, step |-> "check",
                           confirmed |-> (row.jenkins_name # <<>> /\ exists),
                           age |-> difference,
                           requested |-> FALSE, result |-> "none",
                           deleted |-> FALSE]
                IN IF SkipHealthy(row.jenkins_name, exists)
                   THEN /\ LoopNext(p)
                        /\ rev' = [rev EXCEPT ![p] = ev]
                   ELSE IF PastGrace(difference)
                   THEN /\ rpc' = [rpc EXCEPT ![p] = "list"]
                        /\ rev' = [rev EXCEPT ![p] = [ev EXCEPT !.requested = TRUE]]
                        /\ UNCHANGED <<ridx, rpidx>>
                   ELSE /\ LoopNext(p)
                        /\ rev' = [rev EXCEPT ![p] = ev]
    /\ UNCHANGED <<rnodes, rtarget>>
    /\ UNCHANGED worldVars
    /\ UNCHANGED notReaper

\* provider.destroy_node(name=node.cloud_name): driver.list_nodes() and the
\* search for the name; CloudNodeNotFound and any other error are handled here
R_List(p) ==
    /\ rpc[p] = "list"
    /\ LET n == CurrentId(p)
           row == CurrentRow(p)
       IN \E answer \in {"listed"} \cup (IF envFaults THEN {"raise"} ELSE {}) :
           IF answer = "raise"
           THEN \* except Exception: continue
                /\ IF HandlesDestroyError("error") THEN LoopNext(p)
                   ELSE /\ rpc' = [rpc EXCEPT ![p] = "raised"]
                        /\ UNCHANGED <<ridx, rpidx>>
                /\ rev' = [rev EXCEPT ![p] =
                             [@ EXCEPT !.step = "list", !.result = "error"]]
                /\ UNCHANGED <<registry, rtarget>>
           ELSE LET target == FindNode(list_nodes(row.provider), row.cloud_name)
                IN IF target = NoTarget
                   THEN \* raise CloudNodeNotFound
                        LET gone == DeletesRecord("not_found")
                        IN /\ LoopNext(p)
                           /\ registry' =
                                IF gone
                                THEN [m \in DOMAIN registry \ {n} |-> registry[m]]
                                ELSE registry
                           /\ rev' = [rev EXCEPT ![p] =
                                        [@ EXCEPT !.step = "list",
                                                  !.result = "not_found",
                                                  !.deleted = gone]]
                           /\ UNCHANGED rtarget
                   ELSE /\ rpc' = [rpc EXCEPT ![p] = "destroy"]
                        /\ rtarget' = [rtarget EXCEPT ![p] = target]
                        /\ rev' = [rev EXCEPT ![p] = [@ EXCEPT !.step = "list"]]
                        /\ UNCHANGED <<registry, ridx, rpidx>>
    /\ UNCHANGED <<rnodes, now, jenkinsNodes, cloud, volumes, envFaults, destroyed>>
    /\ UNCHANGED notReaper

\* destroy_node continued: driver.destroy_node(node), then destroy_volume(name)
R_Destroy(p) ==
    /\ rpc[p] = "destroy"
    /\ LET n == CurrentId(p)
           row == CurrentRow(p)
       IN \E outcome \in DestroyOutcomes(rtarget[p]) :
           LET result == DestroyResult(outcome)
               gone == DeletesRecord(result)
           IN /\ cloud' = IF outcome \in {"destroyed", "volume_raise"}
                          THEN CloudWithout(rtarget[p]) ELSE cloud
              /\ destroyed' = IF outcome \in {"destroyed", "volume_raise"}
                             THEN destroyed \cup {row.cloud_name} ELSE destroyed
              /\ volumes' = IF outcome = "destroyed"
                            THEN VolumesAfterDestroy(row.cloud_name) ELSE volumes
              /\ registry' = IF gone
                             THEN [m \in DOMAIN registry \ {n} |-> registry[m]]
                             ELSE registry
              /\ rev' = [rev EXCEPT ![p] =
                           [@ EXCEPT !.step = "destroy", !.result = result,
                                     !.deleted = gone]]
              /\ IF result = "ok" \/ HandlesDestroyError(result) THEN LoopNext(p)
                 ELSE /\ rpc' = [rpc EXCEPT ![p] = "raised"]
                      /\ UNCHANGED <<ridx, rpidx>>
    /\ rtarget' = [rtarget EXCEPT ![p] = NoTarget]
    /\ UNCHANGED <<rnodes, now, jenkinsNodes, envFaults>>
    /\ UNCHANGED notReaper

\* for provider_name in providers_conf.keys(): providers.get(...).purge()
R_Purge(p) ==
    /\ rpc[p] = "purge"
    /\ \E answer \in {"purged"} \cup (IF envFaults THEN {"raise"} ELSE {}) :
        IF answer = "raise"
        THEN \* driver.list_nodes() raises inside purge(): nothing catches it
             /\ rpc' = [rpc EXCEPT ![p] = "raised"]
             /\ UNCHANGED <<cloud, rpidx>>
        ELSE /\ cloud' = CloudAfterPurge(ConfiguredProviders[rpidx[p]])
             /\ IF rpidx[p] < Len(ConfiguredProviders)
                THEN /\ rpidx' = [rpidx EXCEPT ![p] = rpidx[p] + 1]
                     /\ rpc' = rpc
                ELSE /\ rpc' = [rpc EXCEPT ![p] = "done"]
                     /\ rpidx' = rpidx
    /\ UNCHANGED <<rnodes, ridx, rtarget, rev>>
    /\ UNCHANGED <<now, registry, jenkinsNodes, volumes, envFaults, destroyed>>
    /\ UNCHANGED notReaper

check_orphaned(p) ==
    R_Start(p) \/ R_Check(p) \/ R_List(p) \/ R_Destroy(p) \/ R_Purge(p)

\* time passes
Tick ==
    /\ \E t \in TimePoints : t > now /\ now' = t
    /\ UNCHANGED <<registry, jenkinsNodes, cloud, volumes, envFaults, destroyed>>
    /\ UNCHANGED reaperVars
    /\ UNCHANGED notReaper

-----------------------------------------------------------------------------
(* The reaper's specification: one pass at a time, over every world of      *)
(* MaxNodes rows                                                            *)

\* what one row's node looks like outside the registry
Profiles ==
    [joined : BOOLEAN, inCI : BOOLEAN,
     atProvider : {"absent", "running", "error"}, volume : BOOLEAN]

WorldOf(prof) ==
    /\ registry = [i \in NodeIds |-> NodeRow(i, prof[i].joined)]
    /\ jenkinsNodes =
         LET ids == SeqOfSet({i \in NodeIds : prof[i].joined /\ prof[i].inCI})
         IN [k \in 1..Len(ids) |-> [name |-> JenkinsName(ids[k]), idle |-> FALSE]]
    /\ cloud =
         LET ids == SeqOfSet({i \in NodeIds : prof[i].atProvider # "absent"})
         IN [k \in 1..Len(ids) |->
               [name |-> CloudName(ids[k]), state |-> prof[ids[k]].atProvider,
                repr |-> IF prof[ids[k]].atProvider = "error"
                         THEN "ERROR" ELSE "RUNNING",
                provider |-> ProviderOf(ids[k])]]
    /\ volumes = {CloudName(i) : i \in {j \in NodeIds : prof[j].volume}}

ReaperInit ==
    /\ now = 1
    /\ \E prof \in [NodeIds -> Profiles] :
         /\ \A i \in NodeIds : prof[i].inCI => prof[i].joined
         /\ \A i \in NodeIds : prof[i].volume => prof[i].atProvider # "absent"
         /\ WorldOf(prof)
    /\ ReaperAtRest
    /\ IdleAtRest
    /\ QueueAtRest
    /\ DirectCallsAtRest

Init == ReaperInit /\ envFaults = TRUE

Next == check_orphaned(1) \/ Tick

Spec == Init /\ [][Next]_vars

-----------------------------------------------------------------------------
(* async.py: check_queue *)

\* node_name after the direct match and, when that gives nothing, the job
\* fallbacks: the job's config when get_job_info finds the job, the job's
\* name when it raises JenkinsException
NodeNameOf(task) ==
    LET direct == match_node(task.why[1], catalog)
        job_name == job_from_url(task.url)
    IN IF direct # None THEN direct
       ELSE IF JobInfoFound(job_name)
            THEN match_node_from_job_config(task.url, catalog)
            ELSE match_node_from_matrix_job_name(job_name, catalog)

\* needed_nodes with one more node of type node_name
CountOneMore(needed, node_name) ==
    [name \in DOMAIN needed \cup {node_name} |->
        IF name # node_name THEN needed[name]
        ELSE IF node_name \in DOMAIN needed THEN needed[node_name] + 1 ELSE 1]

RECURSIVE ScanQueue(_, _)
\* the loop over the tasks of the snapshot: the needed nodes, or raised when
\* an exception left the loop
ScanQueue(tasks, needed) ==
    IF tasks = <<>> THEN [raised |-> FALSE, needed |-> needed]
    ELSE LET task == Head(tasks)
         IN IF task.why = <<>> THEN ScanQueue(Tail(tasks), needed)
            ELSE IF ~is_stuck(task.why[1]) THEN ScanQueue(Tail(tasks), needed)
            ELSE IF NodeNameOf(task) = Raised
                 THEN [raised |-> TRUE, needed |-> needed]
            ELSE IF NodeNameOf(task) = None THEN ScanQueue(Tail(tasks), needed)
            ELSE ScanQueue(Tail(tasks), CountOneMore(needed, NodeNameOf(task)))

\* needed_nodes once the request for node_name is out
WithoutPosted(needed, node_name) ==
    [name \in DOMAIN needed \ {node_name} |-> needed[name]]

\* configured_node['name'] = node_name; configured_node['count'] = count
CatalogWith(node_name, count) ==
    [k \in 1..Len(catalog) |->
        IF catalog[k].key = node_name
        THEN [catalog[k] EXCEPT !.name = node_name, !.count = count]
        ELSE catalog[k]]

\* conn.get_queue_info() and the scan of its result
Q_Scan ==
    /\ qpc \in {"idle", "done", "raised"}
    /\ qpasses < MaxQueuePasses
    /\ qpasses' = qpasses + 1
    /\ \E answer \in {"items"} \cup (IF envFaults THEN {"raise", "falsy"} ELSE {}) :
         \/ /\ answer = "raise"
            /\ qpc' = "raised"
            /\ qlog' = "none"
            /\ needed_nodes' = NothingNeeded
         \/ /\ answer = "falsy"
            /\ qpc' = "done"
            /\ qlog' = "failed"
            /\ needed_nodes' = NothingNeeded
         \/ /\ answer = "items"
            /\ queue = <<>>
            /\ qpc' = "done"
            /\ qlog' = "empty"
            /\ needed_nodes' = NothingNeeded
         \/ /\ answer = "items"
            /\ queue # <<>>
            /\ qlog' = "scanned"
            /\ LET scan == ScanQueue(queue, NothingNeeded)
               IN /\ needed_nodes' = IF scan.raised THEN NothingNeeded ELSE scan.needed
                  /\ qpc' = IF scan.raised THEN "raised"
                            ELSE IF DOMAIN scan.needed = {} THEN "done"
                            ELSE "post"
    /\ UNCHANGED <<queue, catalog, requests, envFaults>>
    /\ UNCHANGED notQueue

\* one iteration of the loop over needed_nodes.items()
Q_Post ==
    /\ qpc = "post"
    /\ \E node_name \in DOMAIN needed_nodes :
         IF node_name \notin Range(Keys(catalog))
         THEN /\ qpc' = "raised"
              /\ UNCHANGED <<needed_nodes, catalog, requests>>
         ELSE /\ catalog' = CatalogWith(node_name, needed_nodes[node_name])
              /\ \E answer \in {"posted"} \cup (IF envFaults THEN {"raise"} ELSE {}) :
                   \/ /\ answer = "raise"
                      /\ qpc' = "raised"
                      /\ UNCHANGED <<needed_nodes, requests>>
                   \/ /\ answer = "posted"
                      /\ requests' = Append(requests,
                             [pass |-> qpasses, name |-> node_name,
                              count |-> needed_nodes[node_name]])
                      /\ needed_nodes' = WithoutPosted(needed_nodes, node_name)
                      /\ qpc' = IF DOMAIN needed_nodes' = {} THEN "done" ELSE "post"
    /\ UNCHANGED <<queue, qpasses, qlog, envFaults>>
    /\ UNCHANGED notQueue

check_queue == Q_Scan \/ Q_Post

\* a run of check_queue against a queue that stays as it is, with and without
\* failing external calls
QueueInit ==
    /\ now = 1
    /\ registry = [i \in {} |-> NodeRow(i, TRUE)]
    /\ jenkinsNodes = <<>>
    /\ cloud = <<>>
    /\ volumes = {}
    /\ envFaults \in BOOLEAN
    /\ ReaperAtRest
    /\ IdleAtRest
    /\ qpc = "idle"
    /\ \E n \in 0..MaxTasks : \E pick \in [1..n -> 1..Len(QueueTasks)] :
         queue = [k \in 1..n |-> QueueTasks[pick[k]]]
    /\ needed_nodes = NothingNeeded
    /\ catalog = ConfiguredNodes
    /\ qpasses = 0
    /\ qlog = "none"
    /\ requests = <<>>
    /\ DirectCallsAtRest

QueueNext == check_queue

SpecQueue == QueueInit /\ [][QueueNext]_vars

-----------------------------------------------------------------------------
(* async.py: check_idling *)

\* the part of the name test that the list comprehension applies
IsMitaNodeAlways(name) == TRUE

\* mita_nodes = [n for n in ci_nodes if len(n['name'].split('__')) > 1]
IsMitaNode(name) == Len(SplitOn(name, DoubleUnderscore)) > 1

\* uuid = n['name'].split('__')[-1]
UuidOfName(name) == Last(SplitOn(name, DoubleUnderscore))

\* the two branches of the idle test are swapped
ReportKindSwapped(idle) == IF idle THEN "active" ELSE "idle"

\* if node_info.get('idle'): post .../idle  else: post .../active
ReportKind(idle) == IF idle THEN "idle" ELSE "active"

\* ci_nodes = conn.get_nodes() and the selection of mita_nodes
I_Start ==
    /\ ipc \in {"idle", "done", "raised"}
    /\ polls < MaxPolls
    /\ polls' = polls + 1
    /\ \E answer \in {"listed"} \cup (IF envFaults THEN {"raise"} ELSE {}) :
        IF answer = "raise"
        THEN \* conn.get_nodes() raises: nothing in check_idling catches it
             /\ ipc' = "raised"
             /\ imita' = <<>>
        ELSE LET ci_nodes == [k \in 1..Len(jenkinsNodes) |-> jenkinsNodes[k].name]
                 mita_nodes == SelectSeq(ci_nodes, IsMitaNode)
             IN /\ imita' = mita_nodes
                /\ ipc' = IF mita_nodes = <<>> THEN "done" ELSE "loop"
    /\ iidx' = 1
    /\ UNCHANGED <<reports, jenkinsNodes, envFaults>>
    /\ UNCHANGED notIdle

\* one mita node: conn.get_node_info(name) and the post of its state
I_Node ==
    /\ ipc = "loop"
    /\ LET name == imita[iidx]
           k == CHOOSE j \in 1..Len(jenkinsNodes) : jenkinsNodes[j].name = name
           uuid == UuidOfName(name)
           post == [poll |-> polls, name |-> name, observed |-> jenkinsNodes[k].idle,
                    uuid |-> uuid, kind |-> ReportKind(jenkinsNodes[k].idle)]
           onward == IF iidx < Len(imita) THEN "loop" ELSE "done"
       IN \E answer \in {"posted"} \cup
                 (IF envFaults THEN {"info_raise", "post_raise"} ELSE {}) :
           /\ reports' = IF answer = "info_raise" THEN reports
                          ELSE Append(reports, post)
           /\ ipc' = IF answer = "posted" THEN onward ELSE "raised"
           /\ iidx' = IF answer = "posted" /\ onward = "loop" THEN iidx + 1 ELSE iidx
    /\ UNCHANGED <<imita, polls, jenkinsNodes, envFaults>>
    /\ UNCHANGED notIdle

check_idling == I_Start \/ I_Node

\* a CI node starts or stops building
EnvToggleIdle ==
    /\ \E k \in 1..Len(jenkinsNodes) :
         jenkinsNodes' = [jenkinsNodes EXCEPT ![k].idle = ~@]
    /\ UNCHANGED <<envFaults>>
    /\ UNCHANGED idleVars
    /\ UNCHANGED notIdle

\* the CI node names of the idle reporter's worlds: "h__u1", "a__b__u2",
\* "m" and "a_b"
IdleNames ==
    << <<"h", "_", "_", "u", "1">>,
       <<"a", "_", "_", "b", "_", "_", "u", "2">>,
       <<"m">>,
       <<"a", "_", "b">> >>

IdleInit ==
    /\ now = 1
    /\ registry = [i \in {1} |-> NodeRow(i, TRUE)]
    /\ \E present \in SUBSET (1..Len(IdleNames)) :
         LET ids == SeqOfSet(present)
         IN jenkinsNodes = [k \in 1..Len(ids) |-> [name |-> IdleNames[ids[k]], idle |-> FALSE]]
    /\ cloud = <<>>
    /\ volumes = {}
    /\ envFaults = TRUE
    /\ ReaperAtRest
    /\ IdleAtRest
    /\ QueueAtRest
    /\ DirectCallsAtRest

IdleNext == check_idling \/ EnvToggleIdle

SpecIdle == IdleInit /\ [][IdleNext]_vars

-----------------------------------------------------------------------------
(* util.py called directly: is_stuck, match_node, from_label and get_key on  *)
(* every catalog and string below                                           *)

\* the catalogs: the configured nodes of the queue's world, three more and
\* the empty one
Catalogs ==
    { ConfiguredNodes,
      \* the keys are labels of the other entry
      << [key |-> <<"w", "h", "e", "e", "z", "y">>, labels |-> <<<<"c", "e", "n", "t", "o", "s", "6">>, <<"x", "8", "6", "_", "6", "4">>>>, name |-> None, count |-> 0],
         [key |-> <<"c", "e", "n", "t", "o", "s", "6">>, labels |-> <<<<"w", "h", "e", "e", "z", "y">>, <<"a", "m", "d", "6", "4">>>>, name |-> None, count |-> 0] >>,
      \* a key is a substring of a label of another entry
      << [key |-> <<"x", "8", "6">>, labels |-> <<<<"i", "3", "8", "6">>>>, name |-> None, count |-> 0],
         [key |-> <<"h", "u", "g", "e">>, labels |-> <<<<"x", "8", "6", "_", "6", "4">>, <<"a", "m", "d", "6", "4">>>>, name |-> None, count |-> 0] >>,
      \* two entries hold the same labels
      << [key |-> <<"t", "r", "u", "s", "t", "y">>, labels |-> <<<<"x", "8", "6", "_", "6", "4">>, <<"a", "m", "d", "6", "4">>>>, name |-> None, count |-> 0],
         [key |-> <<"x", "e", "n", "i", "a", "l">>, labels |-> <<<<"x", "8", "6", "_", "6", "4">>, <<"a", "m", "d", "6", "4">>, <<"h", "u", "g", "e">>>>, name |-> None, count |-> 0] >>,
      <<>> }

\* the reasons and lookup keys
EngineInputs ==
    { <<"W", "a", "i", "t", "i", "n", "g", " ", "f", "o", "r", " ", "n", "e", "x", "t", " ", "a", "v", "a", "i", "l", "a", "b", "l", "e", " ", "e", "x", "e", "c", "u", "t", "o", "r", " ", "o", "n", " ", "c", "e", "n", "t", "o", "s", "6">>,
      <<"W", "a", "i", "t", "i", "n", "g", " ", "f", "o", "r", " ", "n", "e", "x", "t", " ", "a", "v", "a", "i", "l", "a", "b", "l", "e", " ", "e", "x", "e", "c", "u", "t", "o", "r", " ", "o", "n", " ", LQuote, "x", "8", "6", "_", "6", "4", RQuote>>,
      <<"W", "a", "i", "t", "i", "n", "g", " ", "f", "o", "r", " ", "n", "e", "x", "t", " ", "a", "v", "a", "i", "l", "a", "b", "l", "e", " ", "e", "x", "e", "c", "u", "t", "o", "r", " ", "o", "n", " ", "x", "8", "6", "_", "6", "4", "&", "&", "a", "m", "d", "6", "4">>,
      <<"W", "a", "i", "t", "i", "n", "g", " ", "f", "o", "r", " ", "n", "e", "x", "t", " ", "a", "v", "a", "i", "l", "a", "b", "l", "e", " ", "e", "x", "e", "c", "u", "t", "o", "r", " ", "o", "n", " ", "x", "8", "6", "_", "6", "4", "&", "&", "z", "z", "z">>,
      <<"W", "a", "i", "t", "i", "n", "g", " ", "f", "o", "r", " ", "n", "e", "x", "t", " ", "a", "v", "a", "i", "l", "a", "b", "l", "e", " ", "e", "x", "e", "c", "u", "t", "o", "r", " ", "o", "n", " ", "s", "t", "a", "t", "i", "c", "2">>,
      <<"W", "a", "i", "t", "i", "n", "g", " ", "f", "o", "r", " ", "n", "e", "x", "t", " ", "a", "v", "a", "i", "l", "a", "b", "l", "e", " ", "e", "x", "e", "c", "u", "t", "o", "r", " ", "o", "n", " ", "w", "h", "e", "e", "z", "y", "_", "_", "1", "0", ".", "0", ".", "0", ".", "1">>,
      <<"A", "l", "l", " ", "n", "o", "d", "e", "s", " ", "o", "f", " ", "l", "a", "b", "e", "l", " ", LQuote, "x", "8", "6", "_", "6", "4", RQuote, " ", "a", "r", "e", " ", "o", "f", "f", "l", "i", "n", "e">>,
      <<"A", "l", "l", " ", "n", "o", "d", "e", "s", " ", "o", "f", " ", "l", "a", "b", "e", "l", " ", LQuote, "x", "8", "6", "_", "6", "4", "&", "&", "a", "m", "d", "6", "4", RQuote, " ", "a", "r", "e", " ", "o", "f", "f", "l", "i", "n", "e">>,
      <<"A", "l", "l", " ", "n", "o", "d", "e", "s", " ", "o", "f", " ", "l", "a", "b", "e", "l", " ", LQuote, "x", "8", "6", "_", "6", "4", "&", "&", "z", "z", "z", RQuote, " ", "a", "r", "e", " ", "o", "f", "f", "l", "i", "n", "e">>,
      <<"T", "h", "e", "r", "e", " ", "a", "r", "e", " ", "n", "o", " ", "n", "o", "d", "e", "s", " ", "w", "i", "t", "h", " ", "t", "h", "e", " ", "l", "a", "b", "e", "l", " ", LQuote, "x", "8", "6", "_", "6", "4", RQuote>>,
      <<"T", "h", "e", "r", "e", " ", "a", "r", "e", " ", "n", "o", " ", "n", "o", "d", "e", "s", " ", "w", "i", "t", "h", " ", "t", "h", "e", " ", "l", "a", "b", "e", "l", " ", LQuote, "x", "8", "6", "_", "6", "4", "&", "&", "a", "m", "d", "6", "4", RQuote>>,
      <<"T", "h", "e", "r", "e", " ", "a", "r", "e", " ", "n", "o", " ", "n", "o", "d", "e", "s", " ", "w", "i", "t", "h", " ", "t", "h", "e", " ", "l", "a", "b", "e", "l", " ", LQuote, "a", "m", "d", "6", "4", "&", "&", "z", "z", "z", RQuote>>,
      <<"w", "h", "e", "e", "z", "y", "_", "_", "1", "0", ".", "0", ".", "0", ".", "1", " ", "i", "s", " ", "o", "f", "f", "l", "i", "n", "e">>,
      <<"z", "z", "z", " ", "i", "s", " ", "o", "f", "f", "l", "i", "n", "e">>,
      <<"W", "a", "i", "t", "i", "n", "g", " ", "f", "o", "r", " ", "a", " ", "d", "o", "e", "s", "n", RQuote, "t", " ", "h", "a", "v", "e", " ", "l", "a", "b", "e", "l", " ", "w", "h", "e", "e", "z", "y", ";", " ", "z", "z", "z">>,
      <<"a", " ", "d", "o", "e", "s", "n", RQuote, "t", " ", "h", "a", "v", "e", " ", "l", "a", "b", "e", "l", " ", "z", "z", "z", ";", " ", "b", " ", "d", "o", "e", "s", "n", RQuote, "t", " ", "h", "a", "v", "e", " ", "l", "a", "b", "e", "l", " ", "a", "m", "d", "6", "4">>,
      <<"I", "n", " ", "t", "h", "e", " ", "q", "u", "i", "e", "t", " ", "p", "e", "r", "i", "o", "d">>,
      <<"c", "e", "n", "t", "o", "s", "6">>,
      <<"1", "0", ".", "0", ".", "0", ".", "1", "_", "_", "c", "e", "n", "t", "o", "s", "6", "_", "_", "h", "u", "g", "e">>,
      <<"w", "h", "e", "e", "z", "y", "_", "_", "c", "e", "n", "t", "o", "s", "6">>,
      <<"z", "z", "z">>,
      <<"1", "0", ".", "0", ".", "0", ".", "1", "_", "_", "c", "e", "n", "t", "o", "s", "6", "_", "_", "h", "u", "g", "e", " ", "i", "s", " ", "o", "f", "f", "l", "i", "n", "e">>,
      <<"c", "e", "n", "t", "o", "s", "6", " ", "i", "s", " ", "o", "f", "f", "l", "i", "n", "e">>,
      <<>> }

\* the result of a call
Called(fn, value) == [fn |-> fn, value |-> value, truth |-> FALSE]

\* util.is_stuck(einput)
E_is_stuck ==
    /\ eout' = [fn |-> "is_stuck", value |-> None, truth |-> is_stuck(einput)]
    /\ UNCHANGED <<ecatalog, einput, efallback>>
    /\ UNCHANGED notEngine

\* util.match_node(einput)
E_match_node ==
    /\ eout' = Called("match_node", match_node(einput, ecatalog))
    /\ UNCHANGED <<ecatalog, einput, efallback>>
    /\ UNCHANGED notEngine

\* util.from_label(einput)
E_from_label ==
    /\ eout' = Called("from_label", from_label(einput, ecatalog))
    /\ UNCHANGED <<ecatalog, einput, efallback>>
    /\ UNCHANGED notEngine

\* util.from_offline_node(einput); string.split()[0] raises IndexError when
\* the string has no token
E_from_offline_node ==
    /\ eout' = Called("from_offline_node",
                      IF Split(einput) = <<>> THEN Raised
                      ELSE from_offline_node(einput, ecatalog))
    /\ UNCHANGED <<ecatalog, einput, efallback>>
    /\ UNCHANGED notEngine

\* util.get_key(nodes, einput, efallback)
E_get_key ==
    /\ eout' = Called("get_key", get_key(ecatalog, einput, efallback))
    /\ UNCHANGED <<ecatalog, einput, efallback>>
    /\ UNCHANGED notEngine

EngineInit ==
    /\ now = 1
    /\ registry = [i \in {} |-> NodeRow(i, TRUE)]
    /\ jenkinsNodes = <<>>
    /\ cloud = <<>>
    /\ volumes = {}
    /\ envFaults = FALSE
    /\ ReaperAtRest
    /\ IdleAtRest
    /\ QueueAtRest
    /\ ProviderAtRest
    /\ ecatalog \in Catalogs
    /\ einput \in EngineInputs
    /\ efallback \in BOOLEAN
    /\ eout = NotCalled

EngineNext ==
    E_is_stuck \/ E_match_node \/ E_from_label \/ E_from_offline_node \/ E_get_key

SpecEngine == EngineInit /\ [][EngineNext]_vars

-----------------------------------------------------------------------------
(* providers/openstack.py called directly: destroy_node(name=...) and purge() *)
(* against every provider of at most MaxListed nodes                         *)

MaxListed == 2

\* 'foo', 'foo1', 'foo2', ...: node names, one of them a prefix of the others
ProviderName(i) == <<"f", "o", "o">> \o (IF i = 0 THEN <<>> ELSE <<Digit(i)>>)

ProviderNames == {ProviderName(i) : i \in 0..MaxListed}

\* node.state, an integer of the older driver or a string of the newer one,
\* with the state str(node) shows: a healthy node, and a node in error that
\* only the integer, only the text, or the string and the text give away
NodeStates ==
    { [state |-> "running", repr |-> "RUNNING"],
      [state |-> "7", repr |-> "RUNNING"],
      [state |-> "running", repr |-> "ERROR"],
      [state |-> "error", repr |-> "ERROR"] }

ProviderNodes ==
    { [name |-> name, state |-> st.state, repr |-> st.repr,
       provider |-> "openstack"] : name \in ProviderNames, st \in NodeStates }

\* what a direct call leaves behind
\* (api is what driver.destroy_node answered)
CallRecord(call, name, listing, listed, invoked, api, vols, returned) ==
    [call |-> call, name |-> name, listing |-> listing, listed |-> listed,
     invoked |-> invoked, api |-> api, volumes |-> vols, returned |-> returned]

\* destroy_node(name=name)
P_destroy_node ==
    /\ \E name \in ProviderNames :
       \E answer \in {"listed"} \cup (IF envFaults THEN {"raise"} ELSE {}) :
           IF answer = "raise"
           THEN \* driver.list_nodes() raises
                /\ plast' = CallRecord("destroy_node", name, "raised", <<>>, {},
                                       "none", {}, "raised")
                /\ UNCHANGED <<cloud, volumes>>
           ELSE LET nodes == list_nodes("openstack")
                    target == FindNode(nodes, name)
                IN IF target = NoTarget
                   THEN \* raise CloudNodeNotFound
                        /\ plast' = CallRecord("destroy_node", name, "listed", nodes,
                                               {}, "none", {}, "CloudNodeNotFound")
                        /\ UNCHANGED <<cloud, volumes>>
                   ELSE \E outcome \in DestroyOutcomes(target) :
                          /\ cloud' = IF outcome \in {"destroyed", "volume_raise"}
                                      THEN CloudWithout(target) ELSE cloud
                          /\ volumes' = IF outcome = "destroyed"
                                        THEN VolumesAfterDestroy(name) ELSE volumes
                          /\ plast' = CallRecord("destroy_node", name, "listed", nodes,
                                        {target},
                                        CASE outcome = "api_false" -> "false"
                                          [] outcome = "api_raise" -> "raised"
                                          [] OTHER -> "true",
                                        IF outcome = "destroyed" THEN volumes \cap {name}
                                        ELSE {},
                                        IF DestroyResult(outcome) = "ok" THEN "None"
                                        ELSE "raised")
    /\ UNCHANGED <<envFaults, wait>>
    /\ UNCHANGED notProvider

\* purge(): node.destroy() on every listed node in error state; a destroy
\* that raises ends the loop, one that the API refuses is not noticed
P_purge ==
    /\ \E answer \in {"listed"} \cup (IF envFaults THEN {"raise"} ELSE {}) :
           IF answer = "raise"
           THEN /\ plast' = CallRecord("purge", <<>>, "raised", <<>>, {}, "none", {},
                                       "raised")
                /\ UNCHANGED <<cloud, volumes>>
           ELSE LET nodes == list_nodes("openstack")
                    errors == {k \in 1..Len(nodes) : InErrorState(nodes[k])}
                IN \E failed \in {0} \cup (IF envFaults THEN errors ELSE {}) :
                   \E refused \in (IF envFaults THEN SUBSET errors ELSE {{}}) :
                     LET reached == IF failed = 0 THEN errors
                                    ELSE {k \in errors : k <= failed}
                         gone == {nodes[k] : k \in (reached \ refused) \ {failed}}
                     IN /\ cloud' = SelectSeq(cloud, LAMBDA nd : nd \notin gone)
                        /\ plast' = CallRecord("purge", <<>>, "listed", nodes,
                                      {nodes[k] : k \in reached}, "none", {},
                                      IF failed # 0 THEN "raised"
                                      ELSE IF errors # {} THEN "True" ELSE "None")
                        /\ UNCHANGED volumes
    /\ UNCHANGED <<envFaults, wait>>
    /\ UNCHANGED notProvider

\* a provider whose nodes have names of their own, with or without volumes,
\* with and without failing API calls
ProviderInit ==
    /\ now = 1
    /\ registry = [i \in {} |-> NodeRow(i, TRUE)]
    /\ jenkinsNodes = <<>>
    /\ \E n \in 0..MaxListed : \E nodes \in [1..n -> ProviderNodes] :
         /\ \A j, k \in 1..n : nodes[j].name = nodes[k].name => j = k
         /\ cloud = nodes
    /\ volumes \in {{}, ProviderNames}
    /\ envFaults \in BOOLEAN
    /\ ReaperAtRest
    /\ IdleAtRest
    /\ QueueAtRest
    /\ EngineAtRest
    /\ ProviderAtRest

ProviderNext == P_destroy_node \/ P_purge

SpecProvider == ProviderInit /\ [][ProviderNext]_vars

\* the sizes and the images a request names and a provider lists
SizeNames == {"small", "huge"}

ImageNames == {"centos", "debian"}

\* nothing of the list is told apart from what was asked for
AvailableAny(offered, wanted) == offered

\* available_sizes = [s for s in sizes if s.name == kw['size']] and
\* matching_images = [i for i in images if i.name == kw['image_name']]
Available(offered, wanted) == offered \cap {wanted}

\* what a direct call of create_node leaves behind
CreateRecord(name, size, image_name, storage, listing, sizes, images, node_calls, volume_calls, returned) ==
    [call |-> "create_node", name |-> name, size |-> size,
     image_name |-> image_name, storage |-> storage, listing |-> listing,
     sizes |-> sizes, images |-> images, node_calls |-> node_calls,
     volume_calls |-> volume_calls, returned |-> returned]

\* the node driver.create_node(name=name, ...) makes
NewNode(name) ==
    [name |-> name, state |-> "running", repr |-> "RUNNING",
     provider |-> "openstack"]

\* create_node(name=..., size=..., image_name=..., storage=...) for 'foo' or
\* 'foo1', whichever no node of the provider has yet
P_create_node ==
    /\ \E name \in {ProviderName(0), ProviderName(1)}
                      \ {cloud[k].name : k \in 1..Len(cloud)} :
       \E size \in SizeNames : \E image_name \in ImageNames :
       \E storage \in BOOLEAN :
       \E answer \in {"listed"} \cup (IF envFaults THEN {"raise"} ELSE {}) :
          IF answer = "raise"
          THEN \* driver.list_images() or driver.list_sizes() raises
               /\ plast' = CreateRecord(name, size, image_name, storage, "raised",
                                        {}, {}, 0, 0, "raised")
               /\ UNCHANGED <<cloud, volumes>>
          ELSE \E sizes \in SUBSET SizeNames : \E images \in SUBSET ImageNames :
               IF Available(sizes, size) = {} \/ Available(images, image_name) = {}
               THEN \* no vm will be created: return
                    /\ plast' = CreateRecord(name, size, image_name, storage,
                                             "listed", sizes, images, 0, 0, "None")
                    /\ UNCHANGED <<cloud, volumes>>
               ELSE \E outcome \in {"created"} \cup
                        (IF envFaults
                         THEN {"ssl_error", "create_raise"} \cup
                              (IF storage THEN {"volume_raise", "attach_refused"}
                               ELSE {})
                         ELSE {}) :
                      LET made == outcome \notin {"ssl_error", "create_raise"}
                          stored == storage /\ outcome \in {"created", "attach_refused"}
                      IN /\ cloud' = IF made THEN Append(cloud, NewNode(name))
                                     ELSE cloud
                         /\ volumes' = IF stored THEN volumes \cup {name}
                                       ELSE volumes
                         /\ plast' = CreateRecord(name, size, image_name, storage,
                                       "listed", sizes, images, 1,
                                       IF made /\ storage THEN 1 ELSE 0,
                                       IF outcome \in {"created", "ssl_error"}
                                       THEN "None" ELSE "raised")
    /\ UNCHANGED <<envFaults, wait>>
    /\ UNCHANGED notProvider

\* a provider without nodes of this service, with and without failing API
\* calls
CreateInit ==
    /\ now = 1
    /\ registry = [i \in {} |-> NodeRow(i, TRUE)]
    /\ jenkinsNodes = <<>>
    /\ cloud = <<>>
    /\ volumes = {}
    /\ envFaults \in BOOLEAN
    /\ ReaperAtRest
    /\ IdleAtRest
    /\ QueueAtRest
    /\ DirectCallsAtRest

CreateNext == P_create_node

SpecCreate == CreateInit /\ [][CreateNext]_vars

-----------------------------------------------------------------------------
(* providers/openstack.py: _wait_until_volume_available(volume, maybe_in_use) *)

MaxTries == 10

\* volume.state: the names and the integers of the docstring's table that the
\* function tests, 'error', and get_volume's 'notfound'
VolumeStates == {"creating", "3", "in_use", "available", "0", "error", "notfound"}

\* ok_states = ['creating', 3], and 'in_use' when maybe_in_use
ok_states(maybe_in_use) ==
    {"creating", "3"} \cup (IF maybe_in_use THEN {"in_use"} ELSE {})

\* the loop never gives up
TriesNeverExceeded(tries) == FALSE

\* if tries > 10: break
TriesExceeded(tries) == tries > MaxTries

\* one turn of the while loop: sleep(3), volume = get_volume(volume.name),
\* tries = tries + 1 and the two breaks
W_Loop ==
    /\ wait.pc = "loop"
    /\ wait.state \in ok_states(wait.maybe_in_use)
    /\ \E answer \in VolumeStates \cup (IF envFaults THEN {"raise"} ELSE {}) :
         IF answer = "raise"
         THEN \* driver.list_volumes() raises inside get_volume
              wait' = [wait EXCEPT !.pc = "raised"]
         ELSE wait' = [wait EXCEPT
                         !.state = answer,
                         !.tries = wait.tries + 1,
                         !.pc = IF TriesExceeded(wait.tries + 1) \/ answer = "notfound"
                                THEN "after" ELSE "loop"]
    /\ UNCHANGED <<plast, cloud, volumes, envFaults>>
    /\ UNCHANGED notProvider

\* the loop is left (its condition is false, or a break): return True
W_Return ==
    /\ \/ wait.pc = "after"
       \/ wait.pc = "loop" /\ wait.state \notin ok_states(wait.maybe_in_use)
    /\ wait' = [wait EXCEPT !.pc = "returned_True"]
    /\ UNCHANGED <<plast, cloud, volumes, envFaults>>
    /\ UNCHANGED notProvider

\* a call with a volume in any state, with and without failing API calls
WaitInit ==
    /\ now = 1
    /\ registry = [i \in {} |-> NodeRow(i, TRUE)]
    /\ jenkinsNodes = <<>>
    /\ cloud = <<>>
    /\ volumes = {}
    /\ envFaults \in BOOLEAN
    /\ ReaperAtRest
    /\ IdleAtRest
    /\ QueueAtRest
    /\ EngineAtRest
    /\ plast = NoCall
    /\ \E maybe_in_use \in BOOLEAN : \E state \in VolumeStates :
         wait = [pc |-> "loop", maybe_in_use |-> maybe_in_use, state |-> state,
                 tries |-> 0]

WaitNext == W_Loop \/ W_Return

\* the function runs on: nothing outside it can stop its next statement
SpecWait == WaitInit /\ [][WaitNext]_vars /\ WF_vars(WaitNext)

\* two passes of check_orphaned that the scheduler starts without waiting for
\* one another, every row being older than the grace period and no external
\* call failing by itself
OverlapInit ==
    /\ now = 88000
    /\ \E prof \in [NodeIds -> Profiles] :
         /\ \A i \in NodeIds : prof[i].inCI => prof[i].joined
         /\ \A i \in NodeIds : prof[i].volume => prof[i].atProvider # "absent"
         /\ WorldOf(prof)
    /\ envFaults = FALSE
    /\ ReaperAtRest
    /\ IdleAtRest
    /\ QueueAtRest
    /\ DirectCallsAtRest

OverlapNext == check_orphaned(1) \/ check_orphaned(2)

SpecOverlap == OverlapInit /\ [][OverlapNext]_vars

\* the reaper's passes in a world whose external calls all answer, the
\* scheduler starting each pass (the beat entry of check_orphaned) and time
\* passing; no node has a storage volume, which without a failing call only
\* goes away together with its node
FairInit == ReaperInit /\ envFaults = FALSE /\ volumes = {}

FairSpec ==
    FairInit /\ [][Next]_vars /\ WF_vars(check_orphaned(1)) /\ WF_vars(Tick)

-----------------------------------------------------------------------------
(* Claims about check_orphaned *)

\* a pass has just settled the destroy request of its current row
Settled(p) == rpc[p] \in {"list", "destroy"} /\ rpc'[p] \notin {rpc[p], "destroy"}

\* the CI system has the node of row i
InCI(i) == node_exists(JenkinsName(i))

\* C1: for every row not confirmed present in the CI system, a destroy is
\* requested in the pass if and only if its age in seconds is greater than 900,
\* whatever the magnitude of the age.
C1_DestroyIffOlderThanGrace ==
    \A p \in ReaperIds :
        (rev[p].step # "none" /\ ~rev[p].confirmed)
            => (rev[p].requested <=> rev[p].age > GracePeriod)

C3_DestroyThenNotFoundConverges ==
    /\ [](\A p \in ReaperIds :
            /\ rpc[p] # "raised"
            /\ rev[p].result # "error"
            /\ rev[p].result = "ok" =>
                 /\ CloudName(rev[p].n) \in destroyed
                 /\ \A k \in 1..Len(cloud) : cloud[k].name # CloudName(rev[p].n)
            /\ rev[p].result = "not_found" => rev[p].n \notin DOMAIN registry)
    /\ [][\A p \in ReaperIds :
            (Settled(p) /\ CurrentRow(p).cloud_name \in destroyed)
                => rev'[p].result = "not_found"]_vars
    /\ \A i \in NodeIds :
         [](( /\ i \in DOMAIN registry
              /\ ~InCI(i)
              /\ now - (i - 1) > GracePeriod ) => <>(i \notin DOMAIN registry))

C3_Witness ==
    \E p \in ReaperIds :
        /\ rev[p].result = "not_found"
        /\ CloudName(rev[p].n) \in destroyed
        /\ rev[p].n \notin DOMAIN registry

C23_EveryProviderPurgedOnce ==
    [][\A p \in ReaperIds :
         /\ (rpc[p] \in {"loop", "list", "destroy", "purge"}
                /\ rpc'[p] \in {"done", "raised"})
              => (rpc[p] = "purge" /\ rpidx[p] = Len(ConfiguredProviders))
         /\ (rpc[p] # "purge" /\ rpc'[p] = "purge")
              => /\ rpidx'[p] = 1
                 /\ rnodes'[p] = <<>> \/ ridx[p] = Len(rnodes'[p])
         /\ (rpc[p] = "purge" /\ rpc'[p] = "purge" /\ rpidx'[p] # rpidx[p])
              => rpidx'[p] = rpidx[p] + 1]_vars

\* C24: a reaper pass that an external query aborts has mutated nothing: every
\* row it listed when it began is still in the registry, and the row it
\* handled last was neither destroyed at the provider nor deleted.
C24_AbortedPassMutatesNothing ==
    \A p \in ReaperIds :
        rpc[p] = "raised" =>
            /\ \A k \in 1..Len(rnodes[p]) : rnodes[p][k].id \in DOMAIN registry
            /\ rev[p].result # "ok"
            /\ ~rev[p].deleted

\* C30: once the reaper has deleted a node's row, the providers hold neither
\* a node nor a volume of that node's cloud name.
C30_NothingLeftForDeletedRow ==
    \A i \in NodeIds :
        i \notin DOMAIN registry =>
            /\ \A k \in 1..Len(cloud) : cloud[k].name # CloudName(i)
            /\ CloudName(i) \notin volumes

-----------------------------------------------------------------------------
(* Claims about check_idling *)

C6_ReportsFollowNamingConvention ==
    /\ \A k \in 1..Len(reports) :
         LET r == reports[k]
         IN /\ Contains(r.name, DoubleUnderscore)
            /\ \E j \in 1..Len(jenkinsNodes) : jenkinsNodes[j].name = r.name
            /\ r.kind = (IF r.observed THEN "idle" ELSE "active")
            /\ EndsWith(r.name, DoubleUnderscore \o r.uuid)
            /\ ~Contains(r.uuid, DoubleUnderscore)
            /\ \A j \in 1..Len(reports) :
                 (reports[j].name = r.name /\ reports[j].poll = r.poll) => j = k
    /\ ipc = "done" =>
         \A j \in 1..Len(jenkinsNodes) :
            Contains(jenkinsNodes[j].name, DoubleUnderscore) =>
               \E k \in 1..Len(reports) :
                  reports[k].name = jenkinsNodes[j].name /\ reports[k].poll = polls

C6_Witness ==
    /\ ipc = "done"
    /\ Len(jenkinsNodes) = Len(IdleNames)
    /\ \E j, k \in 1..Len(reports) :
         /\ reports[j].poll = polls /\ reports[k].poll = polls
         /\ reports[j].kind = "idle" /\ reports[k].kind = "active"
         /\ reports[j].uuid = <<"u", "1">> /\ reports[k].uuid = <<"u", "2">>

\* C22: every idle or active report is addressed to an identifier that has a
\* record in the registry.
C22_ReportsOnlyForRegistryNodes ==
    \A k \in 1..Len(reports) :
        \E i \in DOMAIN registry : registry[i].uuid = reports[k].uuid

-----------------------------------------------------------------------------
(* Claims about check_queue *)

\* the current pass of check_queue is over, normally or by an exception
QueuePassOver == qpc \in {"done", "raised"}

\* the requests the n-th pass posted
RequestsOfPass(n) == SelectSeq(requests, LAMBDA r : r.pass = n)

\* the task has a reason, is stuck and resolved to node type T
ResolvedTo(task, T) ==
    /\ task.why # <<>>
    /\ is_stuck(task.why[1])
    /\ NodeNameOf(task) = T

\* how many tasks of the snapshot resolved to node type T
ResolvedCount(T) == Cardinality({k \in 1..Len(queue) : ResolvedTo(queue[k], T)})

RECURSIVE SumOfCounts(_)
\* how many nodes a sequence of requests asks for
SumOfCounts(rs) == IF rs = <<>> THEN 0 ELSE Head(rs).count + SumOfCounts(Tail(rs))

\* C7: for every queue snapshot, a pass in which no external call fails ends
\* having posted exactly one creation request for each node type some task
\* resolved to, carrying the number of tasks with a reason, stuck and resolved
\* to that type, and no request for any other type.
C7_OneRequestPerResolvedType ==
    (~envFaults /\ QueuePassOver) =>
        \A k \in 1..Len(ConfiguredNodes) :
            LET T == ConfiguredNodes[k].key
                posted == SelectSeq(RequestsOfPass(qpasses), LAMBDA r : r.name = T)
            IN IF ResolvedCount(T) > 0
               THEN Len(posted) = 1 /\ posted[1].count = ResolvedCount(T)
               ELSE posted = <<>>

\* C8: a pass whose snapshot is the empty list posts no request, a pass whose
\* queue query fails posts no request and ends without an error, and the two
\* log differently.
C8_EmptyAndFailedQueryAreNoOps ==
    /\ (qlog = "empty" /\ QueuePassOver) =>
           (qpc = "done" /\ RequestsOfPass(qpasses) = <<>>)
    /\ (qlog \in {"failed", "none"} /\ QueuePassOver) =>
           (qpc = "done" /\ qlog # "empty" /\ RequestsOfPass(qpasses) = <<>>)

\* C9: a second pass over the unchanged snapshot, no external call failing,
\* leaves the total number of nodes requested where the first pass left it.
C9_SecondPassRequestsNoMore ==
    (~envFaults /\ qpasses = 2 /\ QueuePassOver) =>
        SumOfCounts(requests) <= SumOfCounts(RequestsOfPass(1))

\* the task has a reason and is stuck, and neither the direct match nor the
\* fallback by its job gives a node type
CannotBeResolved(task) ==
    /\ task.why # <<>>
    /\ is_stuck(task.why[1])
    /\ NodeNameOf(task) \notin Range(Keys(ConfiguredNodes))

\* C18: a pass whose snapshot holds a stuck task that cannot be resolved, no
\* external call failing otherwise, ends without an error, and the requests
\* for the node types the other tasks resolved to are posted with the counts
\* of those tasks.
C18_UnresolvableTaskIsDropped ==
    ( /\ ~envFaults
      /\ QueuePassOver
      /\ \E k \in 1..Len(queue) : CannotBeResolved(queue[k]) )
        => /\ qpc = "done"
           /\ \A k \in 1..Len(queue) :
                 ~CannotBeResolved(queue[k]) /\ queue[k].why # <<>>
                 /\ is_stuck(queue[k].why[1])
                   => \E i \in 1..Len(requests) :
                         /\ requests[i].pass = qpasses
                         /\ requests[i].name = NodeNameOf(queue[k])
                         /\ requests[i].count = ResolvedCount(NodeNameOf(queue[k]))

\* C25: after any sequence of passes every catalog entry has the fields and
\* values it had at start-up.
C25_CatalogNeverChanges == catalog = ConfiguredNodes

-----------------------------------------------------------------------------
(* Claims about the three tasks *)

\* C10: no pass of check_queue, check_idling or check_orphaned ends with an
\* exception leaving the task, whichever external call fails.
C10_NoExceptionEscapes ==
    /\ qpc # "raised"
    /\ ipc # "raised"
    /\ \A p \in ReaperIds : rpc[p] # "raised"

-----------------------------------------------------------------------------
(* Claims about providers/openstack.py *)

\* C16: destroy_node(name) ends with CloudNodeNotFound if and only if no node
\* of the provider's node list has exactly that name, and such a call invokes
\* no destroy on any node, destroys no volume and leaves the provider as it
\* was; a call that cannot list the nodes fails with another error.
C16_NotFoundIffNoSuchName ==
    /\ [](plast.call = "destroy_node" =>
            /\ plast.listing = "listed" =>
                 ( plast.returned = "CloudNodeNotFound"
                   <=> \A k \in 1..Len(plast.listed) :
                          plast.listed[k].name # plast.name )
            /\ plast.listing = "raised" => plast.returned = "raised"
            /\ plast.returned = "CloudNodeNotFound" =>
                 (plast.invoked = {} /\ plast.volumes = {}))
    /\ [][(plast'.call = "destroy_node" /\ plast'.returned = "CloudNodeNotFound")
            => (cloud' = cloud /\ volumes' = volumes)]_vars

\* destroy_node('foo') ended with CloudNodeNotFound although a node 'foo1' is
\* listed and a volume 'foo' exists
C16_Witness ==
    /\ plast.call = "destroy_node"
    /\ plast.returned = "CloudNodeNotFound"
    /\ plast.name = ProviderName(0)
    /\ \E k \in 1..Len(plast.listed) : plast.listed[k].name = ProviderName(1)
    /\ ProviderName(0) \in volumes

\* C28: when the node of that name is listed and the API answers that it did
\* not destroy it, destroy_node raises an error other than CloudNodeNotFound,
\* destroys no volume, tries no other listed node and leaves nodes and
\* volumes as they were; a volume is destroyed, and the call returns
\* normally, only after the API answered that it destroyed the node, and it
\* is then the volume of that name.
C28_RefusedDestroyRaises ==
    /\ [](plast.call = "destroy_node" =>
            /\ plast.api = "false" =>
                 /\ plast.returned = "raised"
                 /\ plast.volumes = {}
                 /\ \E k \in 1..Len(plast.listed) :
                       /\ plast.listed[k].name = plast.name
                       /\ plast.invoked = {plast.listed[k]}
            /\ plast.volumes # {} =>
                 (plast.api = "true" /\ plast.volumes = {plast.name})
            /\ plast.returned = "None" =>
                 (plast.api = "true" /\ plast.name \notin volumes))
    /\ [][(plast'.call = "destroy_node" /\ plast'.api = "false")
            => (cloud' = cloud /\ volumes' = volumes)]_vars

\* the API refused to destroy 'foo', listed next to another node: the call
\* raised and the volume 'foo' is still there
C28_Witness ==
    /\ plast.call = "destroy_node"
    /\ plast.api = "false"
    /\ plast.returned = "raised"
    /\ plast.name = ProviderName(0)
    /\ Len(plast.listed) = 2
    /\ cloud = plast.listed
    /\ ProviderName(0) \in volumes

\* state 7, state 'error', or a text holding 'state=ERROR'
ClaimedErrorState(nd) == nd.state \in {"7", "error"} \/ nd.repr = "ERROR"

\* C17: purge() invokes destroy on exactly the listed nodes in error state
\* (state 7, state 'error', or a text holding 'state=ERROR'), returns True if
\* and only if there is such a node and None otherwise, the empty list
\* included; a call that an API error ends has invoked destroy on nodes in
\* error state only.
C17_PurgeDestroysErrorNodes ==
    plast.call = "purge" =>
        LET inError == {nd \in Range(plast.listed) : ClaimedErrorState(nd)}
        IN /\ plast.invoked \subseteq inError
           /\ plast.returned # "raised" =>
                /\ plast.invoked = inError
                /\ plast.returned = "True" <=> inError # {}
                /\ plast.returned = "None" <=> inError = {}
           /\ (plast.listing = "listed" /\ plast.listed = <<>>) =>
                plast.returned = "None"

\* purge() returned True after destroying the one node that only its text
\* shows to be in error state, next to a node it left alone
C17_Witness ==
    /\ plast.call = "purge"
    /\ plast.returned = "True"
    /\ Len(plast.listed) = 2
    /\ Cardinality(plast.invoked) = 1
    /\ \A nd \in plast.invoked : nd.state = "running" /\ nd.repr = "ERROR"
    /\ Len(cloud) = 1

\* C26: a create_node whose requested size or image name is not in the
\* provider's lists issues no node-creation and no volume-creation call,
\* returns without raising and leaves the provider's nodes and volumes as
\* they were.
C26_NoCreationWithoutSizeAndImage ==
    /\ []( ( /\ plast.call = "create_node"
             /\ plast.listing = "listed"
             /\ plast.size \notin plast.sizes \/ plast.image_name \notin plast.images )
           => /\ plast.node_calls = 0
              /\ plast.volume_calls = 0
              /\ plast.returned = "None" )
    /\ [][( /\ plast'.call = "create_node"
            /\ plast'.listing = "listed"
            /\ plast'.size \notin plast'.sizes
                 \/ plast'.image_name \notin plast'.images )
          => (cloud' = cloud /\ volumes' = volumes)]_vars

\* a request with storage whose size is listed and whose image is not was
\* given up, next to a node an earlier request created
C26_Witness ==
    /\ plast.call = "create_node"
    /\ plast.returned = "None"
    /\ plast.storage
    /\ plast.size \in plast.sizes
    /\ plast.images = ImageNames \ {plast.image_name}
    /\ plast.node_calls = 0
    /\ Len(cloud) = 1
    /\ plast.name \notin volumes

\* C27: the wait for a volume always ends, whatever states the volume
\* reports: it queries the volume again at most MaxTries + 1 times, goes on
\* only while the volume is in a state worth waiting for, was found and the
\* counter is not over MaxTries, and then returns True, also for a volume
\* that is not available; only a failing API call makes it raise.
C27_WaitIsBounded ==
    /\ [](/\ wait.tries <= MaxTries + 1
          /\ wait.pc = "loop" =>
               /\ wait.tries <= MaxTries
               /\ wait.tries > 0 => wait.state # "notfound"
          /\ wait.pc = "raised" => envFaults)
    /\ [][wait'.tries # wait.tries =>
            /\ wait'.tries = wait.tries + 1
            /\ wait.state \in {"creating", "3", "in_use"}]_vars
    /\ <>(wait.pc \in {"returned_True", "raised"})
    /\ (~envFaults => <>(wait.pc = "returned_True"))

\* the wait gave up on a volume that was still being created after it had
\* asked for it MaxTries + 1 times, and returned True
C27_Witness ==
    /\ wait.pc = "returned_True"
    /\ wait.tries = MaxTries + 1
    /\ wait.state = "creating"

-----------------------------------------------------------------------------
(* Claims about the label resolution of util.py *)

\* the curly quotes taken off a token
Unquoted(token) == SelectSeq(token, LAMBDA ch : ch \notin {LQuote, RQuote})

\* the trailing whitespace token of a reason, without its quotes
TrailingToken(reason) == Unquoted(Last(Split(reason)))

\* the third token from the end of a reason, without its quotes
ThirdFromLastToken(reason) ==
    LET words == Split(reason) IN Unquoted(words[Len(words) - 2])

\* which of the five patterns, tried in order, is the first to match
FirstPattern(reason) ==
    IF StartsWith(reason, WaitingFor) THEN "busy"
    ELSE IF StartsWith(reason, AllNodesOfLabel) THEN "label_offline"
    ELSE IF EndsWith(reason, IsOffline) THEN "node_offline"
    ELSE IF StartsWith(reason, ThereAreNoNodes) THEN "no_nodes_with_label"
    ELSE IF Contains(reason, DoesntHaveLabel) THEN "node_missing_label"
    ELSE "none"

\* the label (or label expression) a reason of the busy, label-offline or
\* no-nodes-with-label pattern names
LabelToken(reason) ==
    IF FirstPattern(reason) = "label_offline" THEN ThirdFromLastToken(reason)
    ELSE TrailingToken(reason)

\* the keys of the entries whose label set holds every one of the labels
KeysHoldingAll(nodes, labels) ==
    {nodes[k].key : k \in {j \in 1..Len(nodes) :
                             Range(labels) \subseteq Range(nodes[j].labels)}}

\* C12: for every catalog and every busy reason whose sanitized trailing token
\* is exactly a catalog key, from_label returns that key, whatever labels the
\* entries carry.
C12_ExactKeyWins ==
    ( /\ eout.fn = "from_label"
      /\ StartsWith(einput, WaitingFor)
      /\ TrailingToken(einput) \in Range(Keys(ecatalog)) )
        => eout.value = TrailingToken(einput)

\* from_label gave the key although another entry, earlier in the catalog,
\* carries the token as a label
C12_Witness ==
    /\ eout.fn = "from_label"
    /\ StartsWith(einput, WaitingFor)
    /\ eout.value = TrailingToken(einput)
    /\ eout.value \in Range(Keys(ecatalog))
    /\ \E k \in 1..Len(ecatalog) :
         /\ ecatalog[k].key # eout.value
         /\ eout.value \in Range(ecatalog[k].labels)
         /\ match_node_from_label(eout.value, ecatalog) = ecatalog[k].key

\* C13: for every catalog and every busy, label-offline or no-nodes-with-label
\* reason whose label token is an expression a&&b, match_node resolves it if
\* and only if some entry's label set holds both a and b, and then to the key
\* of such an entry.
C13_ExpressionNeedsAllLabels ==
    ( /\ eout.fn = "match_node"
      /\ FirstPattern(einput) \in {"busy", "label_offline", "no_nodes_with_label"}
      /\ Contains(LabelToken(einput), AndAnd) )
        => LET holding == KeysHoldingAll(ecatalog, SplitOn(LabelToken(einput), AndAnd))
           IN /\ eout.value # None <=> holding # {}
              /\ eout.value # None => eout.value \in holding

\* C14: get_key returns the key itself when it is a catalog key; otherwise,
\* with the fallback, the first catalog key in iteration order that is a
\* substring of it, none when there is no such key; none without the
\* fallback and none for an empty key.
C14_GetKey ==
    eout.fn = "get_key" =>
        LET inside == {k \in 1..Len(ecatalog) : Contains(einput, ecatalog[k].key)}
        IN /\ einput = <<>> => eout.value = None
           /\ einput \in Range(Keys(ecatalog)) => eout.value = einput
           /\ (einput # <<>> /\ einput \notin Range(Keys(ecatalog))) =>
                /\ (efallback /\ inside # {}) =>
                      \E k \in inside :
                          /\ eout.value = ecatalog[k].key
                          /\ \A j \in inside : k <= j
                /\ (~efallback \/ inside = {}) => eout.value = None
           /\ ( /\ ecatalog = ConfiguredNodes
                /\ efallback
                /\ einput = <<"1", "0", ".", "0", ".", "0", ".", "1", "_", "_", "c", "e", "n", "t", "o", "s", "6", "_", "_", "h", "u", "g", "e">> )
                => eout.value = Centos6

\* the lookup key holds two catalog keys and the fallback gave the first
C14_Witness ==
    /\ eout.fn = "get_key"
    /\ efallback
    /\ einput \notin Range(Keys(ecatalog))
    /\ Cardinality({k \in 1..Len(ecatalog) : Contains(einput, ecatalog[k].key)}) = 2
    /\ eout.value = ecatalog[1].key

\* C15: for every label-offline or no-nodes-with-label reason whose quoted
\* label is in some entry's label set, match_node returns a key whose label
\* set holds that label; with the catalog holding centos6: [centos6, x86_64],
\* "Waiting for next available executor on centos6" and "There are no nodes
\* with the label 'x86_64'" both resolve to centos6.
C15_QuotedLabelResolves ==
    eout.fn = "match_node" =>
        /\ ( /\ FirstPattern(einput) \in {"label_offline", "no_nodes_with_label"}
             /\ KeysHoldingAll(ecatalog, <<LabelToken(einput)>>) # {} )
               => eout.value \in KeysHoldingAll(ecatalog, <<LabelToken(einput)>>)
        /\ ( /\ ecatalog = ConfiguredNodes
             /\ einput \in { WaitingOn \o Centos6,
                            ThereAreNoNodes \o <<" ", "w", "i", "t", "h", " ", "t", "h", "e", " ", "l", "a", "b", "e", "l", " ", LQuote, "x", "8", "6", "_", "6", "4", RQuote>> } )
               => eout.value = Centos6

\* a quoted label of a no-nodes-with-label reason resolved to the entry that
\* holds it, which is not the entry of that name
C15_Witness ==
    /\ eout.fn = "match_node"
    /\ FirstPattern(einput) = "no_nodes_with_label"
    /\ Last(Split(einput)) # LabelToken(einput)
    /\ LabelToken(einput) \notin Range(Keys(ecatalog))
    /\ eout.value \in KeysHoldingAll(ecatalog, <<LabelToken(einput)>>)

\* C19: is_stuck is true exactly when one of the five patterns matches, and
\* match_node gives the result of the resolver of the first pattern that
\* matches, also when that result is none, and none when no pattern matches.
C19_SamePatternsFirstWins ==
    /\ eout.fn = "is_stuck" => (eout.truth <=> FirstPattern(einput) # "none")
    /\ eout.fn = "match_node" =>
         eout.value =
            CASE FirstPattern(einput) = "busy" -> from_label(einput, ecatalog)
              [] FirstPattern(einput) = "label_offline" ->
                    from_offline_label(einput, ecatalog)
              [] FirstPattern(einput) = "node_offline" ->
                    from_offline_node(einput, ecatalog)
              [] FirstPattern(einput) = "no_nodes_with_label" ->
                    from_offline_node_label(einput, ecatalog)
              [] FirstPattern(einput) = "node_missing_label" ->
                    from_node_without_label(einput, ecatalog)
              [] OTHER -> None

\* a reason of the busy pattern stayed unresolved although it also matches the
\* node-missing-label pattern, whose resolver finds a node for it
C19_Witness ==
    /\ eout.fn = "match_node"
    /\ FirstPattern(einput) = "busy"
    /\ Contains(einput, DoesntHaveLabel)
    /\ eout.value = None
    /\ from_node_without_label(einput, ecatalog) # None

\* C20: when the sanitized trailing token of a busy reason is not a catalog
\* key but is a label of some entry, from_label gives the entry the
\* single-label lookup finds, a key whose label set holds the token.
C20_SingleLabelLookupWins ==
    ( /\ eout.fn = "from_label"
      /\ StartsWith(einput, WaitingFor)
      /\ TrailingToken(einput) \notin Range(Keys(ecatalog))
      /\ KeysHoldingAll(ecatalog, <<TrailingToken(einput)>>) # {} )
        => /\ eout.value = match_node_from_label(TrailingToken(einput), ecatalog)
           /\ eout.value \in KeysHoldingAll(ecatalog, <<TrailingToken(einput)>>)

\* C21: from_offline_node takes the first whitespace token of the reason as
\* the node name and gives that name when it is a catalog key, otherwise the
\* part of the name before the first '__' when that is a catalog key, and
\* otherwise nothing; it gives no other catalog key.
C21_OfflineNodeNameOrPrefix ==
    (eout.fn = "from_offline_node" /\ Split(einput) # <<>>) =>
        LET name == Head(Split(einput))
            prefix == Head(SplitOn(name, DoubleUnderscore))
        IN eout.value = IF name \in Range(Keys(ecatalog)) THEN name
                        ELSE IF prefix \in Range(Keys(ecatalog)) THEN prefix
                        ELSE None

\* C29: for every reason and catalog, a result of match_node that is not
\* 'unresolved' is a key of the catalog, whichever resolver and fallback step
\* gave it.
C29_ResultIsCatalogKey ==
    (eout.fn = "match_node" /\ eout.value \notin {None, Raised})
        => eout.value \in Range(Keys(ecatalog))

\* match_node gave a catalog key that the reason does not hold: the key of an
\* entry found through its labels
C29_Witness ==
    /\ eout.fn = "match_node"
    /\ eout.value \in Range(Keys(ecatalog))
    /\ ~Contains(einput, eout.value)
    /\ FirstPattern(einput) \in {"label_offline", "busy"}

====
